---------------------------- MODULE Spec2Model ----------------------------
(***************************************************************************)
(* Model of Library_management.py: the Librarian (books, students, logs,   *)
(* its load from the three files, search_book, search_student, issue_book, *)
(* return_book, calculate_penalty, update_logs, save_data) and the         *)
(* LibraryGUI handlers that call it (search_books, search_students,        *)
(* add_book, add_student, issue_book, return_book).                        *)
(*                                                                         *)
(* Python strings are sequences of one-character strings, so that the      *)
(* substring test, split, join and the date formatting/parsing of the      *)
(* code are computed, not assumed.  A date is Python's proleptic Gregorian *)
(* ordinal (date.toordinal()).                                             *)
(***************************************************************************)
EXTENDS Integers, Sequences, FiniteSets, TLC

VARIABLES
    books, students, logs,                \* Librarian.books, .students, .logs
    disk_books, disk_students, disk_logs, \* the rows of the three CSV files
    now,                                  \* the day datetime.now() falls on
    last,                                 \* what the last handler showed
    ok_calls,                             \* issues and returns that succeeded
    pen,                                  \* a call of calculate_penalty alone
    gui                                   \* the search entries and displays

mem  == <<books, students, logs>>
disk == <<disk_books, disk_students, disk_logs>>
vars == <<books, students, logs, disk_books, disk_students, disk_logs,
          now, last, ok_calls, pen, gui>>

(***************************** program constants **************************)
BASE_PENALTY_RATE == 1
MAX_PENALTY == 50
GRACE_PERIOD == 2
BORROW_LIMIT == 3
LOAN_DAYS == 14

(********************************* bounds *********************************)
\* the number of steps of a run that change the state of the library or
\* the date: registrations, issues, returns and days
MaxOps == 6
\* the numbers of books and of students registered
MaxBooks == 2
MaxStudents == 2
\* the largest number of copies a book is registered with
MaxCopies == 4
PenDueSpan == 40
PenRetSpan == 70

(***************************** string helpers *****************************)
Digits == <<"0", "1", "2", "3", "4", "5", "6", "7", "8", "9">>

DigitChar(n) == Digits[n + 1]

DigitSet == {Digits[i] : i \in 1..10}
DigitOf == [c \in DigitSet |-> (CHOOSE i \in 1..10 : Digits[i] = c) - 1]

IsDigit(c) == c \in DigitSet

DigitVal(c) == DigitOf[c]

\* str.isdigit(): non-empty and every character a digit
isdigit(s) == Len(s) > 0 /\ \A i \in 1..Len(s) : IsDigit(s[i])

\* int(s) for a string of decimal digits
RECURSIVE StrToInt(_)
StrToInt(s) ==
    IF Len(s) = 0 THEN 0
    ELSE 10 * StrToInt(SubSeq(s, 1, Len(s) - 1)) + DigitVal(s[Len(s)])

\* zero-padded decimal of width w
RECURSIVE Pad(_, _)
Pad(n, w) == IF w = 0 THEN <<>> ELSE Pad(n \div 10, w - 1) \o <<DigitChar(n % 10)>>

\* Python: sub in s
Contains(sub, s) ==
    \E i \in 0..(Len(s) - Len(sub)) : SubSeq(s, i + 1, i + Len(sub)) = sub

\* Python: s.find(sub) as a 1-based position, 0 when absent
Find(sub, s) ==
    IF Contains(sub, s)
    THEN 1 + CHOOSE i \in 0..(Len(s) - Len(sub)) :
                 /\ SubSeq(s, i + 1, i + Len(sub)) = sub
                 /\ \A j \in 0..(i - 1) : SubSeq(s, j + 1, j + Len(sub)) # sub
    ELSE 0

\* Python: s.split(sep)[1], the text between the first and the second
\* occurrence of sep (or up to the end of s); s contains sep
SplitSecond(s, sep) ==
    LET p    == Find(sep, s)
        rest == SubSeq(s, p + Len(sep), Len(s))
        q    == Find(sep, rest)
    IN  IF q = 0 THEN rest ELSE SubSeq(rest, 1, q - 1)

\* Python: s[:-1]
DropLast(s) == SubSeq(s, 1, Len(s) - 1)

\* Python: s.split(","): the texts between the commas, <<"">> for ""
RECURSIVE Split(_)
Split(s) ==
    LET p == Find(<<",">>, s)
    IN  IF p = 0 THEN <<s>>
        ELSE <<SubSeq(s, 1, p - 1)>> \o Split(SubSeq(s, p + 1, Len(s)))

\* Python: ",".join(xs)
RECURSIVE Join(_)
Join(xs) ==
    IF Len(xs) = 0 THEN <<>>
    ELSE IF Len(xs) = 1 THEN xs[1]
    ELSE xs[1] \o <<",">> \o Join(Tail(xs))

(******************************* calendar *********************************)
IsLeap(y) == (y % 4 = 0) /\ ((y % 100 # 0) \/ (y % 400 = 0))

DaysInMonth(y, m) ==
    IF m = 2 THEN (IF IsLeap(y) THEN 29 ELSE 28)
    ELSE IF m \in {4, 6, 9, 11} THEN 30 ELSE 31

DaysBeforeYear(y) ==
    (y - 1) * 365 + ((y - 1) \div 4) - ((y - 1) \div 100) + ((y - 1) \div 400)

RECURSIVE DaysBeforeMonth(_, _)
DaysBeforeMonth(y, m) ==
    IF m = 1 THEN 0 ELSE DaysBeforeMonth(y, m - 1) + DaysInMonth(y, m - 1)

\* date(y, m, d).toordinal()
ymd2ord(y, m, d) == DaysBeforeYear(y) + DaysBeforeMonth(y, m) + d

\* date.fromordinal(n) as <<year, month, day>>
ord2ymd(n) ==
    LET y0 == ((n * 400) \div 146097) + 1
        y  == CHOOSE k \in {y0 - 1, y0, y0 + 1} :
                  DaysBeforeYear(k) < n /\ n <= DaysBeforeYear(k + 1)
        r  == n - DaysBeforeYear(y)
        m  == CHOOSE k \in 1..12 :
                  DaysBeforeMonth(y, k) < r /\ r <= DaysBeforeMonth(y, k) + DaysInMonth(y, k)
    IN  <<y, m, r - DaysBeforeMonth(y, m)>>

\* f"{d:%Y-%m-%d}" and strftime("%Y-%m-%d")
FormatDate(n) ==
    LET t == ord2ymd(n)
    IN  Pad(t[1], 4) \o <<"-">> \o Pad(t[2], 2) \o <<"-">> \o Pad(t[3], 2)

\* what ParseDate yields where strptime raises ValueError (below date.min)
NoDate == ymd2ord(1, 1, 1) - 1

\* datetime.strptime(s, "%Y-%m-%d") as an ordinal: four digits, "-", a
\* month of one or two digits, "-", a day of one or two digits or of a
\* space and a digit, naming a day of the calendar; anything else raises
\* ValueError
ParseDate(s) ==
    IF Len(s) < 8 \/ Len(s) > 10 THEN NoDate
    ELSE IF ~isdigit(SubSeq(s, 1, 4)) \/ s[5] # "-" THEN NoDate
    ELSE LET rest == SubSeq(s, 6, Len(s))
             p    == Find(<<"-">>, rest)
             ms   == SubSeq(rest, 1, p - 1)
             ds   == SubSeq(rest, p + 1, Len(rest))
             sp   == Len(ds) = 2 /\ ds[1] = " " /\ IsDigit(ds[2])
         IN  IF p = 0 THEN NoDate
             ELSE IF ~(isdigit(ms) /\ Len(ms) <= 2) THEN NoDate
             ELSE IF ~(sp \/ (isdigit(ds) /\ Len(ds) <= 2)) THEN NoDate
             ELSE LET y == StrToInt(SubSeq(s, 1, 4))
                      m == StrToInt(ms)
                      d == IF sp THEN DigitVal(ds[2]) ELSE StrToInt(ds)
                  IN  IF y < 1 \/ m \notin 1..12 THEN NoDate
                      ELSE IF d \notin 1..DaysInMonth(y, m) THEN NoDate
                      ELSE ymd2ord(y, m, d)

\* str(n)
RECURSIVE IntToStr(_)
IntToStr(n) ==
    IF n < 0 THEN <<"-">> \o IntToStr(0 - n)
    ELSE IF n < 10 THEN <<DigitChar(n)>>
    ELSE IntToStr(n \div 10) \o <<DigitChar(n % 10)>>

\* int(s) for the text of a count, with or without a sign
ParseInt(s) ==
    IF Len(s) > 0 /\ s[1] = "-" THEN 0 - StrToInt(Tail(s)) ELSE StrToInt(s)

(********************************* inputs *********************************)
B1 == <<"B", "1">>
B10 == <<"B", "1", "0">>
DueSep == <<"D", "u", "e", ":", " ">>
Empty == <<>>

\* what the user can type in the Book ID fields: an id, an id that is a
\* prefix of it, an id holding the text "Due: ", and nothing
BookIds == {B1, B10, DueSep}
BookIdInputs == BookIds \cup {Empty}
Titles == {<<"G", "o">>}
Authors == {<<"K", "r">>}
\* what the user can type in the Copies field: two counts, and a text
\* that is not one
CopyInputs == {<<"1">>, IntToStr(MaxCopies), <<"-", "1">>}

S1 == <<"S", "1">>
S2 == <<"S", "2">>
StudentIds == {S1, S2}
StudentIdInputs == StudentIds
Names == {<<"A", "l">>}

\* the day the program is started
StartDay == ymd2ord(2024, 2, 20)

\* what the user can type in the Return Date field: the third day after
\* the due date of a loan of the first day, a day no month has, and nothing
ThirdDayLate == FormatDate(StartDay + LOAN_DAYS + GRACE_PERIOD + 1)
ReturnDateInputs ==
    {ThirdDayLate,
     <<"2", "0", "2", "4", "-", "0", "2", "-", "3", "0">>,
     Empty}

(***************************** records of the code ************************)
\* Book.__init__
Book(book_id, title, author, available_copies) ==
    [book_id |-> book_id, title |-> title, author |-> author,
     available_copies |-> available_copies]

\* Student.__init__: borrowed_books if borrowed_books else []
Student(student_id, name, borrowed_books) ==
    [student_id |-> student_id, name |-> name,
     borrowed_books |-> IF Len(borrowed_books) > 0 THEN borrowed_books ELSE <<>>]

\* Book.to_csv as DictWriter writes it: the count becomes its decimal text
BookToCsv(b) ==
    [book_id |-> b.book_id, title |-> b.title, author |-> b.author,
     available_copies |-> IntToStr(b.available_copies)]

\* Student.to_csv
StudentToCsv(s) ==
    [student_id |-> s.student_id, name |-> s.name,
     borrowed_books |-> Join(s.borrowed_books)]

\* can_borrow with the limit off by one
can_borrow_le(s) == Len(s.borrowed_books) <= BORROW_LIMIT

\* Student.can_borrow
can_borrow(s) == Len(s.borrowed_books) < BORROW_LIMIT

\* the loan entry holding the day of the issue in place of the due date
LoanStringIssueDate(book_id, due) ==
    book_id \o <<" ", "(">> \o DueSep \o FormatDate(due - LOAN_DAYS) \o <<")">>

\* f"{book_id} (Due: {due_date:%Y-%m-%d})"
LoanString(book_id, due) ==
    book_id \o <<" ", "(">> \o DueSep \o FormatDate(due) \o <<")">>

\* next((b for b in self.books if b.book_id == book_id), None): the position
\* of the first match, 0 for None
FindBook(bks, book_id) ==
    IF \E i \in 1..Len(bks) : bks[i].book_id = book_id
    THEN CHOOSE i \in 1..Len(bks) :
             /\ bks[i].book_id = book_id
             /\ \A j \in 1..(i - 1) : bks[j].book_id # book_id
    ELSE 0

\* next((s for s in self.students if s.student_id == student_id), None)
FindStudent(sts, student_id) ==
    IF \E i \in 1..Len(sts) : sts[i].student_id = student_id
    THEN CHOOSE i \in 1..Len(sts) :
             /\ sts[i].student_id = student_id
             /\ \A j \in 1..(i - 1) : sts[j].student_id # student_id
    ELSE 0

\* [b for b in student.borrowed_books if book_id in b], as positions
Matches(borrowed_books, book_id) ==
    {i \in 1..Len(borrowed_books) : Contains(book_id, borrowed_books[i])}

\* the position of borrowed[0]; list.remove(borrowed[0]) removes the first
\* equal element, which is at this position
FirstMatch(borrowed_books, book_id) ==
    CHOOSE i \in Matches(borrowed_books, book_id) :
        \A j \in Matches(borrowed_books, book_id) : i <= j

RemoveAt(xs, i) == SubSeq(xs, 1, i - 1) \o SubSeq(xs, i + 1, Len(xs))

\* borrowed[0].split("Due: ")[1][:-1]
DueDateStr(entry) == DropLast(SplitSecond(entry, DueSep))

\* calculate_penalty without the grace period
calculate_penalty_nograce(issue_due_date, return_date) ==
    LET issue_date      == ParseDate(issue_due_date)
        return_date_obj == ParseDate(return_date)
        overdue_days    == return_date_obj - issue_date
    IN  IF issue_date = NoDate \/ return_date_obj = NoDate
        THEN [exc |-> TRUE, penalty |-> 0]
        ELSE IF overdue_days <= 0 THEN [exc |-> FALSE, penalty |-> 0]
        ELSE [exc |-> FALSE,
              penalty |-> IF overdue_days * BASE_PENALTY_RATE < MAX_PENALTY
                          THEN overdue_days * BASE_PENALTY_RATE ELSE MAX_PENALTY]

\* Librarian.calculate_penalty; exc when strptime raises ValueError
calculate_penalty(issue_due_date, return_date) ==
    LET issue_date      == ParseDate(issue_due_date)
        return_date_obj == ParseDate(return_date)
        overdue_days    == (return_date_obj - issue_date) - GRACE_PERIOD
    IN  IF issue_date = NoDate \/ return_date_obj = NoDate
        THEN [exc |-> TRUE, penalty |-> 0]
        ELSE IF overdue_days <= 0 THEN [exc |-> FALSE, penalty |-> 0]
        ELSE [exc |-> FALSE,
              penalty |-> IF overdue_days * BASE_PENALTY_RATE < MAX_PENALTY
                          THEN overdue_days * BASE_PENALTY_RATE ELSE MAX_PENALTY]

\* the entry with the two ids in each other's place
LogEntrySwapped(transaction_type, book_id, student_id, today) ==
    [transaction_type |-> transaction_type, book_id |-> student_id,
     student_id |-> book_id, date |-> FormatDate(today)]

\* the entry update_logs appends
LogEntry(transaction_type, book_id, student_id, today) ==
    [transaction_type |-> transaction_type, book_id |-> book_id,
     student_id |-> student_id, date |-> FormatDate(today)]

\* the rows save_data writes
BooksFile(bks) == [i \in 1..Len(bks) |-> BookToCsv(bks[i])]
StudentsFile(sts) == [i \in 1..Len(sts) |-> StudentToCsv(sts[i])]

\* Librarian.__init__: [Book(**b) for b in load_csv(BOOKS_FILE)]
LoadBooks(rows) ==
    [i \in 1..Len(rows) |->
        Book(rows[i].book_id, rows[i].title, rows[i].author,
             ParseInt(rows[i].available_copies))]

\* Librarian.__init__: Student(..., borrowed_books=s['borrowed_books'].split(','))
LoadStudents(rows) ==
    [i \in 1..Len(rows) |->
        Student(rows[i].student_id, rows[i].name, Split(rows[i].borrowed_books))]

\* the load taking the first row of the file for a second header
LoadLogsSkipFirst(rows) == IF rows = <<>> THEN <<>> ELSE Tail(rows)

\* Librarian.__init__: self.logs = load_csv(LOGS_FILE), the rows as written
LoadLogs(rows) == rows

(****************************** outcomes **********************************)
BookNotFound == "Book not found."
StudentNotFound == "Student not found."
NoCopiesAvailable == "No copies available."
BorrowLimitReached == "Student has reached the borrowing limit."
Issued == "Book issued successfully."
NotFound == "Book or Student not found."
LoanNotFound == "This student did not borrow this book."
Returned == "Book returned successfully."
InvalidDate == "Invalid date format. Use YYYY-MM-DD."
FillIn == "Please fill in all fields correctly."
BookAdded == "Book added successfully."
StudentAdded == "Student added successfully."
ValueError == "ValueError"

\* what the last handler showed: the message of its messagebox, the text
\* of due_date_display and the amount of penalty_display
Call(op, result, due, penalty) ==
    [op |-> op, result |-> result, due |-> due, penalty |-> penalty]

NoCall == Call("none", "", Empty, 0)

\* no call of calculate_penalty alone
NoPen == [due |-> StartDay, ret |-> StartDay, called |-> FALSE, exc |-> FALSE, out |-> 0]

(******************************* searches *********************************)
Uppers == <<"A", "B", "C", "D", "E", "F", "G", "H", "I", "J", "K", "L", "M",
            "N", "O", "P", "Q", "R", "S", "T", "U", "V", "W", "X", "Y", "Z">>
Lowers == <<"a", "b", "c", "d", "e", "f", "g", "h", "i", "j", "k", "l", "m",
            "n", "o", "p", "q", "r", "s", "t", "u", "v", "w", "x", "y", "z">>

UpperSet == {Uppers[k] : k \in 1..26}
LowerOf == [c \in UpperSet |-> Lowers[CHOOSE k \in 1..26 : Uppers[k] = c]]

\* str.lower()
lower(s) == [i \in 1..Len(s) |-> IF s[i] \in UpperSet THEN LowerOf[s[i]] ELSE s[i]]

\* Librarian.search_book
RECURSIVE search_book(_, _)
search_book(bks, query) ==
    IF bks = <<>> THEN <<>>
    ELSE (IF \/ Contains(lower(query), lower(Head(bks).title))
             \/ Contains(lower(query), lower(Head(bks).author))
          THEN <<BookToCsv(Head(bks))>> ELSE <<>>)
         \o search_book(Tail(bks), query)

\* search_student taking the id in any case, as it takes the name
RECURSIVE search_student_anycase(_, _)
search_student_anycase(sts, query) ==
    IF sts = <<>> THEN <<>>
    ELSE (IF \/ Contains(lower(query), lower(Head(sts).name))
             \/ lower(query) = lower(Head(sts).student_id)
          THEN <<StudentToCsv(Head(sts))>> ELSE <<>>)
         \o search_student_anycase(Tail(sts), query)

\* Librarian.search_student
RECURSIVE search_student(_, _)
search_student(sts, query) ==
    IF sts = <<>> THEN <<>>
    ELSE (IF \/ Contains(lower(query), lower(Head(sts).name))
             \/ query = Head(sts).student_id
          THEN <<StudentToCsv(Head(sts))>> ELSE <<>>)
         \o search_student(Tail(sts), query)

\* what a display holds after a search: a line for each result, or the
\* line that says none was found
Display(results) == [none |-> results = <<>>, rows |-> results]

\* the window as setup_book_management and setup_student_management make
\* it: empty entries and empty displays
GuiInit ==
    [book_search_entry |-> Empty, student_search_entry |-> Empty,
     books_display |-> [none |-> FALSE, rows |-> <<>>],
     students_display |-> [none |-> FALSE, rows |-> <<>>]]

\* LibraryGUI.search_books on the window g and the books bks
search_books(g, bks) ==
    [g EXCEPT !.books_display = Display(search_book(bks, g.book_search_entry))]

\* LibraryGUI.search_students on the window g and the students sts
search_students(g, sts) ==
    [g EXCEPT !.students_display =
                  Display(search_student(sts, g.student_search_entry))]

(******************************** Init ************************************)
\* Librarian.__init__ with no files: load_csv returns [] three times
Init ==
    /\ books = <<>>
    /\ students = <<>>
    /\ logs = <<>>
    /\ disk_books = <<>>
    /\ disk_students = <<>>
    /\ disk_logs = <<>>
    /\ now = StartDay
    /\ last = NoCall
    /\ ok_calls = 0
    /\ pen = NoPen
    /\ gui = GuiInit

(******************************* actions **********************************)
\* the run is bounded: no further change of state after MaxOps of them
Budget == Len(books) + Len(students) + Len(logs) + (now - StartDay) < MaxOps

\* LibraryGUI.add_book
AddBook(book_id, title, author, copies) ==
    IF ~(book_id # Empty /\ title # Empty /\ author # Empty /\ isdigit(copies))
    THEN /\ last' = Call("add_book", FillIn, Empty, 0)
         /\ UNCHANGED <<mem, disk, now, ok_calls, pen, gui>>
    ELSE /\ Budget /\ Len(books) < MaxBooks
         /\ books' = Append(books, Book(book_id, title, author, StrToInt(copies)))
         /\ disk_books' = BooksFile(books')
         /\ disk_students' = StudentsFile(students)
         /\ last' = Call("add_book", BookAdded, Empty, 0)
         /\ gui' = search_books(gui, books')
         /\ UNCHANGED <<students, logs, disk_logs, now, ok_calls, pen>>

\* LibraryGUI.add_student
AddStudent(student_id, name) ==
    IF ~(student_id # Empty /\ name # Empty)
    THEN /\ last' = Call("add_student", FillIn, Empty, 0)
         /\ UNCHANGED <<mem, disk, now, ok_calls, pen, gui>>
    ELSE /\ Budget /\ Len(students) < MaxStudents
         /\ students' = Append(students, Student(student_id, name, <<>>))
         /\ disk_books' = BooksFile(books)
         /\ disk_students' = StudentsFile(students')
         /\ last' = Call("add_student", StudentAdded, Empty, 0)
         /\ gui' = search_students(gui, students')
         /\ UNCHANGED <<books, logs, disk_logs, now, ok_calls, pen>>

\* the checks with a book refused only below zero copies
issue_result_below(bks, sts, book_id, student_id) ==
    LET bi == FindBook(bks, book_id)
        si == FindStudent(sts, student_id)
    IN  IF bi = 0 THEN BookNotFound
        ELSE IF si = 0 THEN StudentNotFound
        ELSE IF bks[bi].available_copies < 0 THEN NoCopiesAvailable
        ELSE IF ~can_borrow(sts[si]) THEN BorrowLimitReached
        ELSE Issued

\* the checks with the borrowing limit looked at before the copies
issue_result_swapped(bks, sts, book_id, student_id) ==
    LET bi == FindBook(bks, book_id)
        si == FindStudent(sts, student_id)
    IN  IF bi = 0 THEN BookNotFound
        ELSE IF si = 0 THEN StudentNotFound
        ELSE IF ~can_borrow(sts[si]) THEN BorrowLimitReached
        ELSE IF bks[bi].available_copies <= 0 THEN NoCopiesAvailable
        ELSE Issued

\* the checks of Librarian.issue_book, in their order
issue_result(bks, sts, book_id, student_id) ==
    LET bi == FindBook(bks, book_id)
        si == FindStudent(sts, student_id)
    IN  IF bi = 0 THEN BookNotFound
        ELSE IF si = 0 THEN StudentNotFound
        ELSE IF bks[bi].available_copies <= 0 THEN NoCopiesAvailable
        ELSE IF ~can_borrow(sts[si]) THEN BorrowLimitReached
        ELSE Issued

\* issue_book taking the copy before it looks at the borrowing limit
IssueBookEager(book_id, student_id) ==
    LET r   == issue_result(books, students, book_id, student_id)
        bi  == FindBook(books, book_id)
        si  == FindStudent(students, student_id)
        due_date == now + LOAN_DAYS
    IN  IF r \in {BookNotFound, StudentNotFound, NoCopiesAvailable}
        THEN /\ last' = Call("issue", r, Empty, 0)
             /\ gui' = search_books(gui, books)
             /\ UNCHANGED <<mem, disk, now, ok_calls, pen>>
        ELSE IF r = BorrowLimitReached
        THEN /\ books' = [books EXCEPT ![bi].available_copies = @ - 1]
             /\ last' = Call("issue", r, Empty, 0)
             /\ gui' = search_books(gui, books')
             /\ UNCHANGED <<students, logs, disk, now, ok_calls, pen>>
        ELSE /\ Budget
             /\ books' = [books EXCEPT ![bi].available_copies = @ - 1]
             /\ students' = [students EXCEPT ![si].borrowed_books =
                                 Append(@, LoanString(book_id, due_date))]
             /\ logs' = Append(logs, LogEntry("issue", book_id, student_id, now))
             /\ disk_logs' = logs'
             /\ disk_books' = BooksFile(books')
             /\ disk_students' = StudentsFile(students')
             /\ last' = Call("issue", Issued, FormatDate(due_date), 0)
             /\ gui' = search_books(gui, books')
             /\ ok_calls' = ok_calls + 1
             /\ UNCHANGED <<now, pen>>

\* LibraryGUI.issue_book calling Librarian.issue_book
IssueBook(book_id, student_id) ==
    LET r   == issue_result(books, students, book_id, student_id)
        bi  == FindBook(books, book_id)
        si  == FindStudent(students, student_id)
        due_date == now + LOAN_DAYS
    IN  IF r # Issued
        THEN /\ last' = Call("issue", r, Empty, 0)
             /\ gui' = search_books(gui, books)
             /\ UNCHANGED <<mem, disk, now, ok_calls, pen>>
        ELSE /\ Budget
             /\ books' = [books EXCEPT ![bi].available_copies = @ - 1]
             /\ students' = [students EXCEPT ![si].borrowed_books =
                                 Append(@, LoanString(book_id, due_date))]
             /\ logs' = Append(logs, LogEntry("issue", book_id, student_id, now))
             /\ disk_logs' = logs'
             /\ disk_books' = BooksFile(books')
             /\ disk_students' = StudentsFile(students')
             /\ last' = Call("issue", Issued, FormatDate(due_date), 0)
             /\ gui' = search_books(gui, books')
             /\ ok_calls' = ok_calls + 1
             /\ UNCHANGED <<now, pen>>

\* the outcome of Librarian.return_book before it changes anything
return_result(bks, sts, book_id, student_id, return_date) ==
    LET bi == FindBook(bks, book_id)
        si == FindStudent(sts, student_id)
    IN  IF bi = 0 \/ si = 0 THEN NotFound
        ELSE IF Matches(sts[si].borrowed_books, book_id) = {} THEN LoanNotFound
        ELSE IF calculate_penalty(
                    DueDateStr(sts[si].borrowed_books[
                        FirstMatch(sts[si].borrowed_books, book_id)]),
                    return_date).exc
             THEN ValueError
        ELSE Returned

\* return_book without the handler's own strptime: the text of the date
\* reaches Librarian.return_book as it was typed
ReturnBookUnchecked(book_id, student_id, return_date) ==
    LET r  == return_result(books, students, book_id, student_id, return_date)
        bi == FindBook(books, book_id)
        si == FindStudent(students, student_id)
        k  == FirstMatch(students[si].borrowed_books, book_id)
        penalty == calculate_penalty(DueDateStr(students[si].borrowed_books[k]),
                                     return_date).penalty
    IN  IF r # Returned
        THEN /\ last' = Call("return", r, Empty, 0)
             /\ gui' = IF r = ValueError THEN gui
                       ELSE search_students(search_books(gui, books), students)
             /\ UNCHANGED <<mem, disk, now, ok_calls, pen>>
        ELSE /\ Budget
             /\ students' = [students EXCEPT ![si].borrowed_books = RemoveAt(@, k)]
             /\ books' = [books EXCEPT ![bi].available_copies = @ + 1]
             /\ logs' = Append(logs, LogEntry("return", book_id, student_id, now))
             /\ disk_logs' = logs'
             /\ disk_books' = BooksFile(books')
             /\ disk_students' = StudentsFile(students')
             /\ last' = Call("return", Returned, Empty, penalty)
             /\ gui' = search_students(search_books(gui, books'), students')
             /\ ok_calls' = ok_calls + 1
             /\ UNCHANGED <<now, pen>>

\* LibraryGUI.return_book calling Librarian.return_book
ReturnBook(book_id, student_id, return_date) ==
    IF ParseDate(return_date) = NoDate
    THEN /\ last' = Call("return", InvalidDate, Empty, 0)
         /\ UNCHANGED <<mem, disk, now, ok_calls, pen, gui>>
    ELSE
    LET r  == return_result(books, students, book_id, student_id, return_date)
        bi == FindBook(books, book_id)
        si == FindStudent(students, student_id)
        k  == FirstMatch(students[si].borrowed_books, book_id)
        penalty == calculate_penalty(DueDateStr(students[si].borrowed_books[k]),
                                     return_date).penalty
    IN  IF r # Returned
        THEN /\ last' = Call("return", r, Empty, 0)
             /\ gui' = IF r = ValueError THEN gui
                       ELSE search_students(search_books(gui, books), students)
             /\ UNCHANGED <<mem, disk, now, ok_calls, pen>>
        ELSE /\ Budget
             /\ students' = [students EXCEPT ![si].borrowed_books = RemoveAt(@, k)]
             /\ books' = [books EXCEPT ![bi].available_copies = @ + 1]
             /\ logs' = Append(logs, LogEntry("return", book_id, student_id, now))
             /\ disk_logs' = logs'
             /\ disk_books' = BooksFile(books')
             /\ disk_students' = StudentsFile(students')
             /\ last' = Call("return", Returned, Empty, penalty)
             /\ gui' = search_students(search_books(gui, books'), students')
             /\ ok_calls' = ok_calls + 1
             /\ UNCHANGED <<now, pen>>

\* midnight passes: datetime.now() moves to the next day
Tick ==
    /\ Budget
    /\ now' = now + 1
    /\ last' = NoCall
    /\ UNCHANGED <<mem, disk, ok_calls, pen, gui>>

Next ==
    \/ \E b \in BookIdInputs, t \in Titles, a \in Authors, c \in CopyInputs :
           AddBook(b, t, a, c)
    \/ \E s \in StudentIdInputs, n \in Names : AddStudent(s, n)
    \/ \E b \in BookIds, s \in StudentIds : IssueBook(b, s)
    \/ \E b \in BookIds, s \in StudentIds, d \in ReturnDateInputs :
           ReturnBook(b, s, d)
    \/ Tick

Spec == Init /\ [][Next]_vars

(************************ the program started again ***********************)
\* the window is closed and the program started again: LibraryGUI.__init__
\* makes a new Librarian, which loads the three files
Restart ==
    /\ books' = LoadBooks(disk_books)
    /\ students' = LoadStudents(disk_students)
    /\ logs' = LoadLogs(disk_logs)
    /\ last' = Call("restart", "", Empty, 0)
    /\ gui' = GuiInit
    /\ UNCHANGED <<disk, now, ok_calls, pen>>

\* the handlers on one book id and the student ids, and the restart
NextRestart ==
    \/ \E t \in Titles, a \in Authors, c \in CopyInputs : AddBook(B1, t, a, c)
    \/ \E s \in StudentIds, n \in Names : AddStudent(s, n)
    \/ \E s \in StudentIds : IssueBook(B1, s)
    \/ \E s \in StudentIds, d \in ReturnDateInputs : ReturnBook(B1, s, d)
    \/ Restart

SpecRestart == Init /\ [][NextRestart]_vars

(***************************** the Search buttons *************************)
\* the search that puts the names in lower case in the students themselves
SearchStudentsLowering(query) ==
    /\ students' = [i \in 1..Len(students) |->
                        [students[i] EXCEPT !.name = lower(@)]]
    /\ gui' = search_students([gui EXCEPT !.student_search_entry = query], students')
    /\ last' = Call("search_students", "", Empty, 0)
    /\ UNCHANGED <<books, logs, disk, now, ok_calls, pen>>

\* the user types query in the student search entry and presses Search:
\* LibraryGUI.search_students
SearchStudents(query) ==
    /\ gui' = search_students([gui EXCEPT !.student_search_entry = query], students)
    /\ last' = Call("search_students", "", Empty, 0)
    /\ UNCHANGED <<mem, disk, now, ok_calls, pen>>

\* the user types query in the book search entry and presses Search:
\* LibraryGUI.search_books
SearchBooks(query) ==
    /\ gui' = search_books([gui EXCEPT !.book_search_entry = query], books)
    /\ last' = Call("search_books", "", Empty, 0)
    /\ UNCHANGED <<mem, disk, now, ok_calls, pen>>

\* names and queries that differ in case, and an id in lower case for a name
SearchNames == {<<"A", "l">>, <<"s", "1">>}
StudentQueries == {Empty, <<"a", "L">>, S1, <<"s", "1">>, <<"S">>}
BookQueries == {Empty, <<"G", "O">>, <<"x">>}

\* the handlers on one book id and one day of return, and the two searches
NextSearch ==
    \/ \E t \in Titles, a \in Authors : AddBook(B1, t, a, IntToStr(MaxCopies))
    \/ \E s \in StudentIds, n \in SearchNames : AddStudent(s, n)
    \/ \E s \in StudentIds : IssueBook(B1, s)
    \/ \E s \in StudentIds : ReturnBook(B1, s, ThirdDayLate)
    \/ \E q \in BookQueries : SearchBooks(q)
    \/ \E q \in StudentQueries : SearchStudents(q)

SpecSearch == Init /\ [][NextSearch]_vars

(************************** writes that fail ******************************)
BOOKS_FILE == "books.csv"
STUDENTS_FILE == "students.csv"
LOGS_FILE == "logs.csv"

\* the place of a file in the order update_logs and save_data write them
WriteOrder(file) ==
    CASE file = LOGS_FILE -> 1
      [] file = BOOKS_FILE -> 2
      [] file = STUDENTS_FILE -> 3

\* the exception of an open() that fails
OSError == "OSError"

\* the rows of a file after a handler whose save_csv of the file failing
\* raised at open(): the files written before it hold the new rows, it and
\* the files after it keep theirs
RowsAfter(file, failing, old_rows, new_rows) ==
    IF WriteOrder(file) < WriteOrder(failing) THEN new_rows ELSE old_rows

\* LibraryGUI.add_book with save_data raising OSError: the book is appended
\* before save_data is called, and nothing is shown
AddBookWriteFails(book_id, title, author, copies, failing) ==
    /\ book_id # Empty /\ title # Empty /\ author # Empty /\ isdigit(copies)
    /\ Budget /\ Len(books) < MaxBooks
    /\ books' = Append(books, Book(book_id, title, author, StrToInt(copies)))
    /\ disk_books' = RowsAfter(BOOKS_FILE, failing, disk_books, BooksFile(books'))
    /\ disk_students' = disk_students
    /\ last' = Call("add_book", OSError, Empty, 0)
    /\ UNCHANGED <<students, logs, disk_logs, now, ok_calls, pen, gui>>

\* LibraryGUI.add_student with save_data raising OSError
AddStudentWriteFails(student_id, name, failing) ==
    /\ student_id # Empty /\ name # Empty
    /\ Budget /\ Len(students) < MaxStudents
    /\ students' = Append(students, Student(student_id, name, <<>>))
    /\ disk_books' = RowsAfter(BOOKS_FILE, failing, disk_books, BooksFile(books))
    /\ disk_students' = disk_students
    /\ last' = Call("add_student", OSError, Empty, 0)
    /\ UNCHANGED <<books, logs, disk_logs, now, ok_calls, pen, gui>>

\* issue_book with update_logs or save_data raising OSError: lines 105-107
\* have changed the book, the student and the log by then, and the
\* exception leaves issue_book and the handler
IssueBookWriteFails(book_id, student_id, failing) ==
    LET bi  == FindBook(books, book_id)
        si  == FindStudent(students, student_id)
        due_date == now + LOAN_DAYS
    IN  /\ issue_result(books, students, book_id, student_id) = Issued
        /\ Budget
        /\ books' = [books EXCEPT ![bi].available_copies = @ - 1]
        /\ students' = [students EXCEPT ![si].borrowed_books =
                            Append(@, LoanString(book_id, due_date))]
        /\ logs' = Append(logs, LogEntry("issue", book_id, student_id, now))
        /\ disk_logs' = RowsAfter(LOGS_FILE, failing, disk_logs, logs')
        /\ disk_books' = RowsAfter(BOOKS_FILE, failing, disk_books, BooksFile(books'))
        /\ disk_students' = disk_students
        /\ last' = Call("issue", OSError, Empty, 0)
        /\ UNCHANGED <<now, ok_calls, pen, gui>>

\* return_book with update_logs or save_data raising OSError, after lines
\* 126-128
ReturnBookWriteFails(book_id, student_id, return_date, failing) ==
    LET bi == FindBook(books, book_id)
        si == FindStudent(students, student_id)
        k  == FirstMatch(students[si].borrowed_books, book_id)
    IN  /\ ParseDate(return_date) # NoDate
        /\ return_result(books, students, book_id, student_id, return_date) = Returned
        /\ Budget
        /\ students' = [students EXCEPT ![si].borrowed_books = RemoveAt(@, k)]
        /\ books' = [books EXCEPT ![bi].available_copies = @ + 1]
        /\ logs' = Append(logs, LogEntry("return", book_id, student_id, now))
        /\ disk_logs' = RowsAfter(LOGS_FILE, failing, disk_logs, logs')
        /\ disk_books' = RowsAfter(BOOKS_FILE, failing, disk_books, BooksFile(books'))
        /\ disk_students' = disk_students
        /\ last' = Call("return", OSError, Empty, 0)
        /\ UNCHANGED <<now, ok_calls, pen, gui>>

\* the handlers, each ending well or with a write that fails, on one book id
\* and one student id
NextStorage ==
    \/ \E t \in Titles, a \in Authors, c \in CopyInputs : AddBook(B1, t, a, c)
    \/ \E n \in Names : AddStudent(S1, n)
    \/ IssueBook(B1, S1)
    \/ \E d \in ReturnDateInputs : ReturnBook(B1, S1, d)
    \/ \E t \in Titles, a \in Authors, c \in CopyInputs,
          f \in {BOOKS_FILE, STUDENTS_FILE} : AddBookWriteFails(B1, t, a, c, f)
    \/ \E n \in Names, f \in {BOOKS_FILE, STUDENTS_FILE} :
           AddStudentWriteFails(S1, n, f)
    \/ \E f \in {LOGS_FILE, BOOKS_FILE, STUDENTS_FILE} :
           IssueBookWriteFails(B1, S1, f)
    \/ \E d \in ReturnDateInputs, f \in {LOGS_FILE, BOOKS_FILE, STUDENTS_FILE} :
           ReturnBookWriteFails(B1, S1, d, f)

SpecStorage == Init /\ [][NextStorage]_vars

(***************** calculate_penalty as a function of two dates ***********)
\* the first due date tried: the dates tried run over the end of a year
\* and the 29th of February
PenStart == ymd2ord(2023, 12, 20)
PenDues == PenStart..(PenStart + PenDueSpan)
PenRets == (PenStart - 5)..(PenStart + PenDueSpan + PenRetSpan)

InitPenalty ==
    /\ books = <<>>
    /\ students = <<>>
    /\ logs = <<>>
    /\ disk_books = <<>>
    /\ disk_students = <<>>
    /\ disk_logs = <<>>
    /\ now = StartDay
    /\ last = NoCall
    /\ ok_calls = 0
    /\ pen \in {[due |-> d, ret |-> r, called |-> FALSE, exc |-> FALSE, out |-> 0] :
                    d \in PenDues, r \in PenRets}
    /\ gui = GuiInit

\* calculate_penalty(due, ret) on the texts of the two dates
CalcPenalty ==
    /\ ~pen.called
    /\ LET p == calculate_penalty(FormatDate(pen.due), FormatDate(pen.ret))
       IN  pen' = [pen EXCEPT !.called = TRUE, !.exc = p.exc, !.out = p.penalty]
    /\ UNCHANGED <<mem, disk, now, last, ok_calls, gui>>

SpecPenalty == InitPenalty /\ [][CalcPenalty]_vars

(******************************** claims **********************************)
\* what a claim means by the book b, the student s and the loans of s
BookExists(b) == FindBook(books, b) # 0
StudentExists(s) == FindStudent(students, s) # 0
TheBook(b) == books[FindBook(books, b)]
TheStudent(s) == students[FindStudent(students, s)]

\* a loan entry read as the record (book_id, due_date) it stands for: the
\* text after the id has the length of " (Due: YYYY-MM-DD)"
LoanTail == Len(LoanString(Empty, StartDay))
LoanBookId(entry) == SubSeq(entry, 1, Len(entry) - LoanTail)
LoanDue(entry) == ParseDate(SubSeq(entry, Len(entry) - 10, Len(entry) - 1))
HoldsLoan(s, b) ==
    \E k \in 1..Len(TheStudent(s).borrowed_books) :
        LoanBookId(TheStudent(s).borrowed_books[k]) = b

ValidReturnDates == {d \in ReturnDateInputs : ParseDate(d) # NoDate}
IssueFailures == {BookNotFound, StudentNotFound, NoCopiesAvailable, BorrowLimitReached}

\* C1: in every reachable state every book has available_copies >= 0 (so no
\* issue takes a copy of a book that has none)
C1_CopiesNonNegative ==
    \A i \in 1..Len(books) : books[i].available_copies >= 0

\* an issue was refused for want of copies, of a book whose last copy an
\* earlier issue took
C1_Witness ==
    /\ last.op = "issue" /\ last.result = NoCopiesAvailable
    /\ \E i \in 1..Len(books) : books[i].available_copies = 0
    /\ logs # <<>>

\* C2: in every reachable state every student has at most 3 loans
C2_BorrowLimit ==
    \A i \in 1..Len(students) : Len(students[i].borrowed_books) <= 3

\* a student with 3 loans was refused a fourth
C2_Witness ==
    /\ last.op = "issue" /\ last.result = BorrowLimitReached
    /\ \E i \in 1..Len(students) : Len(students[i].borrowed_books) = 3

\* C3: an issue_book call that fails (book not found, student not found, no
\* copies, borrowing limit) leaves the books, the students, the log and the
\* three files as they were
C3_FailedIssueUnchanged ==
    [][(last'.op = "issue" /\ last'.result \in IssueFailures)
           => UNCHANGED <<books, students, logs, disk_books, disk_students, disk_logs>>]_vars

\* an issue was refused for the borrowing limit while the book had copies
\* to take and the library had loans and a log to keep
C3_Witness ==
    /\ last.op = "issue" /\ last.result = BorrowLimitReached
    /\ \A i \in 1..Len(books) : books[i].available_copies > 0
    /\ Len(logs) = 3

\* C4: a return of book b by student s, both registered, with s holding no
\* loan of b, reports that the student did not borrow the book and changes
\* no book and no student, whatever else s has borrowed
C4_ReturnNotBorrowed ==
    [][\A b \in BookIds, s \in StudentIds, d \in ValidReturnDates :
          (/\ last'.op = "return"
           /\ BookExists(b) /\ StudentExists(s) /\ ~HoldsLoan(s, b)
           /\ ReturnBook(b, s, d))
          => (/\ last'.result = LoanNotFound
              /\ books' = books
              /\ students' = students)]_vars

\* C5: a successful issue of b to s takes exactly one copy of b, and the
\* return of b by s that follows it at once succeeds and gives exactly one
\* copy back
C5_IssueReturnRoundTrip ==
    [][/\ \A b \in BookIds, s \in StudentIds :
              (last'.result = Issued /\ IssueBook(b, s))
              => books'[FindBook(books, b)].available_copies
                     = TheBook(b).available_copies - 1
       /\ \A d \in ValidReturnDates :
              (/\ last.op = "issue" /\ last.result = Issued
               /\ last'.op = "return"
               /\ ReturnBook(logs[Len(logs)].book_id, logs[Len(logs)].student_id, d))
              => (/\ last'.result = Returned
                  /\ books'[FindBook(books, logs[Len(logs)].book_id)].available_copies
                         = TheBook(logs[Len(logs)].book_id).available_copies + 1)]_vars

\* C6: the log has as many entries as issues and returns have succeeded (it
\* has none and none has succeeded at the start, and no step breaks the
\* equality): a successful issue or return appends one entry with its type,
\* book id and student id, and no other step changes the log
C6_LogCount ==
    [][/\ Len(logs) = ok_calls => Len(logs') = ok_calls'
       /\ \A b \in BookIds, s \in StudentIds :
              (last'.result = Issued /\ IssueBook(b, s))
              => (/\ Len(logs') = Len(logs) + 1
                  /\ SubSeq(logs', 1, Len(logs)) = logs
                  /\ logs'[Len(logs')].transaction_type = "issue"
                  /\ logs'[Len(logs')].book_id = b
                  /\ logs'[Len(logs')].student_id = s)
       /\ \A b \in BookIds, s \in StudentIds, d \in ReturnDateInputs :
              (last'.result = Returned /\ ReturnBook(b, s, d))
              => (/\ Len(logs') = Len(logs) + 1
                  /\ SubSeq(logs', 1, Len(logs)) = logs
                  /\ logs'[Len(logs')].transaction_type = "return"
                  /\ logs'[Len(logs')].book_id = b
                  /\ logs'[Len(logs')].student_id = s)
       /\ (last'.result \notin {Issued, Returned}) => logs' = logs]_vars

\* a return has just been logged after an issue, and calls have failed
\* on the way without a trace in the log
C6_Witness ==
    /\ last.op = "return" /\ last.result = Returned
    /\ Len(logs) = 2
    /\ logs[1].transaction_type = "issue"
    /\ logs[2].transaction_type = "return"
    /\ Len(books) = 2 /\ Len(students) = 2

\* the penalty the claims state for a due day and a day of return
PenaltyOf(due, ret) ==
    IF (ret - due) - 2 <= 0 THEN 0
    ELSE IF (ret - due) - 2 < 50 THEN (ret - due) - 2 ELSE 50

\* C7: for valid dates due and ret, calculate_penalty is 0 when the whole
\* days from due to ret less 2 are <= 0 and else the lesser of them and 50:
\* it lies in 0..50, is 0 up to 2 days after the due date and 1 on the 3rd
C7_Penalty ==
    pen.called =>
        /\ ~pen.exc
        /\ pen.out = PenaltyOf(pen.due, pen.ret)
        /\ pen.out \in 0..50
        /\ (pen.ret <= pen.due + 2 => pen.out = 0)
        /\ (pen.ret = pen.due + 3 => pen.out = 1)

\* a penalty at the cap, for a loan due in one year and returned in the
\* next, after the 29th of February
C7_Witness ==
    /\ pen.called /\ pen.out = 50
    /\ pen.due < ymd2ord(2024, 1, 1)
    /\ pen.ret > ymd2ord(2024, 2, 29)

\* C8: a successful issue of b to s on the day now takes one copy of b,
\* appends to the loans of s one loan of b due on now + 14, shows that due
\* date, and changes no other book, no other student and no earlier loan
C8_IssueFrame ==
    [][\A b \in BookIds, s \in StudentIds :
          (last'.result = Issued /\ IssueBook(b, s))
          => LET bi  == FindBook(books, b)
                 si  == FindStudent(students, s)
                 old == students[si].borrowed_books
                 new == students'[si].borrowed_books
             IN  /\ Len(books') = Len(books)
                 /\ \A i \in 1..Len(books) :
                        books'[i] = IF i = bi
                                    THEN [books[i] EXCEPT !.available_copies = @ - 1]
                                    ELSE books[i]
                 /\ Len(students') = Len(students)
                 /\ \A j \in 1..Len(students) : j # si => students'[j] = students[j]
                 /\ students'[si].student_id = students[si].student_id
                 /\ students'[si].name = students[si].name
                 /\ Len(new) = Len(old) + 1
                 /\ SubSeq(new, 1, Len(old)) = old
                 /\ LoanBookId(new[Len(new)]) = b
                 /\ LoanDue(new[Len(new)]) = now + 14
                 /\ ParseDate(last'.due) = now + 14]_vars

\* a book was issued to a student with an earlier loan, beside another
\* student with a loan
C8_Witness ==
    /\ last.op = "issue" /\ last.result = Issued
    /\ LoanDue(last.due \o <<")">>) = now + 14
    /\ Len(students) = 2
    /\ \E i, j \in 1..2 :
           /\ i # j
           /\ Len(students[i].borrowed_books) = 2
           /\ LoanDue(students[i].borrowed_books[2]) = now + 14
           /\ Len(students[j].borrowed_books) = 1

\* C9: a successful return of b by s removes from the loans of s exactly
\* the first loan whose book id is b, returns the penalty of that loan's due
\* date and the return date, and keeps every other loan in its place
C9_ReturnFirstLoan ==
    [][\A b \in BookIds, s \in StudentIds, d \in ValidReturnDates :
          (last'.result = Returned /\ ReturnBook(b, s, d))
          => LET si  == FindStudent(students, s)
                 old == students[si].borrowed_books
                 ks  == {k \in 1..Len(old) : LoanBookId(old[k]) = b}
             IN  /\ ks # {}
                 /\ LET k == CHOOSE k \in ks : \A j \in ks : k <= j
                    IN  /\ students'[si].borrowed_books = RemoveAt(old, k)
                        /\ last'.penalty = PenaltyOf(LoanDue(old[k]), ParseDate(d))
                 /\ \A j \in 1..Len(students) : j # si => students'[j] = students[j]]_vars

\* C10: issue_book reports the first check that fails, in the order book
\* exists, student exists, a copy is available, the student has fewer than
\* 3 loans, and succeeds exactly when all four hold
C10_IssueOrder ==
    [][\A b \in BookIds, s \in StudentIds :
          (last'.op = "issue" /\ IssueBook(b, s))
          => LET copies == BookExists(b) /\ TheBook(b).available_copies > 0
                 room   == StudentExists(s) /\ Len(TheStudent(s).borrowed_books) < 3
             IN  /\ last'.result = BookNotFound <=> ~BookExists(b)
                 /\ last'.result = StudentNotFound <=> (BookExists(b) /\ ~StudentExists(s))
                 /\ last'.result = NoCopiesAvailable
                        <=> (BookExists(b) /\ StudentExists(s) /\ ~copies)
                 /\ last'.result = BorrowLimitReached
                        <=> (BookExists(b) /\ StudentExists(s) /\ copies /\ ~room)
                 /\ last'.result = Issued
                        <=> (BookExists(b) /\ StudentExists(s) /\ copies /\ room)]_vars

\* an issue was refused for want of copies to the one student there is, who
\* has 3 loans: two checks fail and the earlier one is reported
C10_Witness ==
    /\ last.op = "issue" /\ last.result = NoCopiesAvailable
    /\ Len(students) = 1
    /\ Len(students[1].borrowed_books) = 3

\* C11: registering an id that is already registered is refused and changes
\* nothing, so in every reachable state no two books share a book_id and no
\* two students share a student_id
C11_UniqueIds ==
    /\ \A i, j \in 1..Len(books) :
           books[i].book_id = books[j].book_id => i = j
    /\ \A i, j \in 1..Len(students) :
           students[i].student_id = students[j].student_id => i = j

\* C12: in every reachable state, what save_data and the log write put in
\* the files loads, in a new Librarian, as the same books, students (each
\* with the same loans, in number and text, also when there are none) and log
C12_SaveLoadRoundTrip ==
    /\ LoadBooks(BooksFile(books)) = books
    /\ LoadStudents(StudentsFile(students)) = students
    /\ LoadLogs(logs) = logs

\* C13: after every handler the three files hold what the books, students
\* and log in memory save as, and a handler whose write fails keeps none of
\* its changes to the books, students and log in memory
C13_NoDivergence ==
    [][/\ last'.result = OSError => UNCHANGED <<books, students, logs>>
       /\ disk_books' = BooksFile(books')
       /\ disk_students' = StudentsFile(students')
       /\ disk_logs' = logs']_vars

IsPrefix(xs, ys) == Len(xs) <= Len(ys) /\ SubSeq(ys, 1, Len(xs)) = xs

\* C14: at every step, a start of the program included, the log in memory
\* before the step is a prefix of the log after it, and so is the log file:
\* no entry is edited, moved or removed
C14_LogAppendOnly ==
    [][IsPrefix(logs, logs') /\ IsPrefix(disk_logs, disk_logs')]_vars

\* the program was started again over a log of an issue and a return, and
\* loaded both
C14_Witness ==
    /\ last.op = "restart"
    /\ Len(logs) = 2
    /\ logs[1].transaction_type = "issue"
    /\ logs[2].transaction_type = "return"
    /\ disk_logs = logs

\* C15: the entry a successful return of b by s on return_date appends has
\* the date return_date, and the entry a successful issue appends has the
\* date of the day of the issue
C15_LogDate ==
    [][/\ \A b \in BookIds, s \in StudentIds, d \in ValidReturnDates :
              (last'.result = Returned /\ ReturnBook(b, s, d))
              => ParseDate(logs'[Len(logs')].date) = ParseDate(d)
       /\ \A b \in BookIds, s \in StudentIds :
              (last'.result = Issued /\ IssueBook(b, s))
              => ParseDate(logs'[Len(logs')].date) = now]_vars

\* the texts that name a day of the year the model's dates lie in, written
\* year-month-day with or without the zeros before the month and the day
DateTexts(n) ==
    LET t == ord2ymd(n)
    IN  {Pad(t[1], 4) \o <<"-">> \o mm \o <<"-">> \o dd :
             mm \in {Pad(t[2], 2), IntToStr(t[2])},
             dd \in {Pad(t[3], 2), IntToStr(t[3])}}
IsCalendarDate(d) ==
    \E n \in ymd2ord(2024, 1, 1)..ymd2ord(2024, 12, 31) : d \in DateTexts(n)
InvalidReturnDates == {d \in ReturnDateInputs : ~IsCalendarDate(d)}

SameLetter(a, b) ==
    a = b \/ \E k \in 1..26 : {a, b} = {Uppers[k], Lowers[k]}
\* name contains q as a substring when case is ignored
NameHas(q, name) ==
    \E i \in 0..(Len(name) - Len(q)) :
        \A k \in 1..Len(q) : SameLetter(q[k], name[i + k])
\* the places, among the students, of those the query q asks for
Asked(q) ==
    {i \in 1..Len(students) :
        NameHas(q, students[i].name) \/ students[i].student_id = q}
\* the k-th of a set of places, from the first registered
Kth(places, k) == CHOOSE i \in places : Cardinality({j \in places : j <= i}) = k

\* C17: a search of the students for query shows exactly the students whose
\* name contains query with case ignored or whose student_id is query itself
\* (a query that is the id in another case, or a part of it, finds nothing
\* by id), in the order of their registration
C17_SearchStudent ==
    [][\A q \in StudentQueries :
          (last'.op = "search_students" /\ SearchStudents(q))
          => LET rows == gui'.students_display.rows
             IN  /\ Len(rows) = Cardinality(Asked(q))
                 /\ gui'.students_display.none = (Asked(q) = {})
                 /\ \A k \in 1..Len(rows) :
                        LET st == students[Kth(Asked(q), k)]
                        IN  /\ rows[k].student_id = st.student_id
                            /\ rows[k].name = st.name
                            /\ rows[k].borrowed_books = Join(st.borrowed_books)]_vars

\* a search for "s1" found the student named "s1" and not the student
\* before it whose id is "S1"
C17_Witness ==
    /\ last.op = "search_students"
    /\ gui.student_search_entry = <<"s", "1">>
    /\ Len(students) = 2
    /\ students[1].student_id = S1 /\ students[1].name = <<"A", "l">>
    /\ students[2].student_id = S2 /\ students[2].name = <<"s", "1">>
    /\ Len(gui.students_display.rows) = 1
    /\ gui.students_display.rows[1].student_id = S2

RECURSIVE LoansOf(_, _)
LoansOf(sts, b) ==
    IF sts = <<>> THEN 0
    ELSE Cardinality({k \in 1..Len(Head(sts).borrowed_books) :
                          LoanBookId(Head(sts).borrowed_books[k]) = b})
         + LoansOf(Tail(sts), b)

\* C19: for a book id registered once, the available copies plus the loans
\* of that book over all students stay what they were at every step, hence
\* equal to the copies the book was registered with; so a return gives a
\* copy back to a book only by ending a loan of that book
C19_CopyConservation ==
    [][\A i \in 1..Len(books) :
          (\A j \in 1..Len(books') : books'[j].book_id = books[i].book_id => j = i)
          => books'[i].available_copies + LoansOf(students', books[i].book_id)
                 = books[i].available_copies + LoansOf(students, books[i].book_id)]_vars

\* the loans a student holds: the entries of borrowed_books that are a loan
\* of a book with a due date
IsLoan(entry) == Len(entry) >= LoanTail /\ LoanDue(entry) # NoDate
ActiveLoans(s) ==
    Cardinality({k \in 1..Len(TheStudent(s).borrowed_books) :
                     IsLoan(TheStudent(s).borrowed_books[k])})

\* C20: also after the program is started again from its files, a student
\* holding k loans is issued a book that has copies exactly when k < 3: the
\* borrowing limit is reported after 3 - k further issues and not before
C20_CapacityAfterRestart ==
    [][\A s \in StudentIds :
          (/\ last'.op = "issue"
           /\ BookExists(B1) /\ StudentExists(s)
           /\ TheBook(B1).available_copies > 0
           /\ IssueBook(B1, s))
          => (last'.result = Issued <=> ActiveLoans(s) < 3)]_vars

============================================================================
